---- MODULE Spec2Model ----
(***************************************************************************)
(* A model of organize_files.py: the Batch class and the crawl function.  *)
(*                                                                         *)
(* Python strings are sequences of one-character strings, so that         *)
(* str.split, str.join, os.path.join and the substring test `x in d` are  *)
(* computed character by character, as the interpreter computes them.     *)
(* Batch objects live in a heap (a sequence indexed by object identity),  *)
(* so that `batches` and `current_batch` hold references, as in Python.   *)
(* The program is Python 2: map and filter return lists.                   *)
(*                                                                         *)
(* BatchSpec drives one Batch object through any sequence of calls;        *)
(* CrawlSpec runs crawl over every tree of a small family of trees.        *)
(***************************************************************************)
EXTENDS Integers, Sequences, FiniteSets

VARIABLES
    heap,           \* Batch objects by identity: [root, files, blocked]
    hist,           \* BatchSpec: the last calls made on the batch, oldest first
    fs,             \* CrawlSpec: the directory tree that os.walk reads
    walk,           \* CrawlSpec: the (root, dirs, files) triples os.walk yields
    LIMIT,          \* crawl's parameter
    idx,            \* number of triples of walk already taken by the for loop
    pc,             \* position of crawl within the loop body
    batches,        \* crawl's local `batches`: a list of references
    current_batch,  \* crawl's local `current_batch`: a reference, 0 when unbound
    in_a_batch,     \* crawl's local `in_a_batch`
    python_files,   \* the files of the inner for loop not yet added
    log             \* CrawlSpec: what each finished visit did (observation only)

vars == <<heap, hist, fs, walk, LIMIT, idx, pc, batches, current_batch,
          in_a_batch, python_files, log>>

-----------------------------------------------------------------------------
(* Bounds *)

\* BatchSpec: a batch holds at most this many files
MaxFiles == 3
\* CrawlSpec: LIMIT ranges over 1..MaxLimit
MaxLimit == 3

-----------------------------------------------------------------------------
(* Python strings and lists *)

SLASH == "/"
DOT == "."

\* the index of the first occurrence of c in s, 0 when there is none
Find(s, c) ==
    IF \E i \in 1..Len(s) : s[i] = c
    THEN CHOOSE i \in 1..Len(s) : s[i] = c /\ \A j \in 1..(i - 1) : s[j] # c
    ELSE 0

\* s.split(c): always at least one component
RECURSIVE Split(_, _)
Split(s, c) ==
    LET i == Find(s, c)
    IN  IF i = 0 THEN <<s>>
        ELSE <<SubSeq(s, 1, i - 1)>> \o Split(SubSeq(s, i + 1, Len(s)), c)

\* '/'.join(parts)
RECURSIVE Join(_)
Join(parts) ==
    IF parts = <<>> THEN <<>>
    ELSE IF Len(parts) = 1 THEN parts[1]
    ELSE parts[1] \o <<SLASH>> \o Join(Tail(parts))

\* l[:-1]
ButLast(l) == SubSeq(l, 1, Len(l) - 1)

\* x in d, for two strings: x occurs in d as a substring
StrIn(x, d) ==
    \E i \in 0..(Len(d) - Len(x)) : SubSeq(d, i + 1, i + Len(x)) = x

\* a list compared with a str by ==: never equal, whatever they hold
ListEqStr(l, s) == FALSE

\* os.path.join(a, b) of posixpath
os_path_join(a, b) ==
    IF Len(b) > 0 /\ b[1] = SLASH THEN b
    ELSE IF a = <<>> \/ a[Len(a)] = SLASH THEN a \o b
    ELSE a \o <<SLASH>> \o b

\* list.remove(x): the list without the first occurrence of x; raises
\* ValueError when x is not in the list
list_remove(l, x) ==
    IF \E i \in 1..Len(l) : l[i] = x
    THEN LET i == CHOOSE k \in 1..Len(l) : l[k] = x /\ \A j \in 1..(k - 1) : l[j] # x
         IN  [raised |-> "none", list |-> SubSeq(l, 1, i - 1) \o SubSeq(l, i + 1, Len(l))]
    ELSE [raised |-> "ValueError", list |-> l]

-----------------------------------------------------------------------------
(* class Batch *)

\* Batch.__init__
Batch(root) == [root |-> root, files |-> <<>>, blocked |-> FALSE]

\* Batch.directories: list(set(...)), the order is not used by any caller
directories(b) ==
    {Join(ButLast(Split(b.files[i], SLASH))) : i \in DOMAIN b.files}

\* a variant of top_level_directories with the containment test reversed
top_level_directories_reversed(b) ==
    {d \in directories(b) :
        Cardinality({x \in directories(b) : StrIn(d, x)}) = 1}

\* Batch.top_level_directories
top_level_directories(b) ==
    {d \in directories(b) :
        Cardinality({x \in directories(b) : StrIn(x, d)}) = 1}

\* the number of levels zip(*split_dirs) yields
ZipLen(split_dirs) ==
    LET lens == {Len(d) : d \in split_dirs}
    IN  IF lens = {} THEN 0
        ELSE CHOOSE n \in lens : \A k \in lens : n <= k

\* a variant of rebalance_root that takes the common prefix character by
\* character instead of component by component
rebalance_root_charwise(b) ==
    LET ds == directories(b)
        n == ZipLen(ds)
        m == CHOOSE k \in 0..n :
                /\ \A j \in 1..k : \A d, e \in ds : d[j] = e[j]
                /\ k < n => \E d, e \in ds : d[k + 1] # e[k + 1]
    IN  [b EXCEPT !.root = IF ds = {} THEN <<>>
                           ELSE SubSeq(CHOOSE d \in ds : TRUE, 1, m)]

\* Batch.rebalance_root
rebalance_root(b) ==
    LET split_dirs == {Split(d, SLASH) : d \in directories(b)}
        n == ZipLen(split_dirs)
        \* the levels before the break
        m == CHOOSE k \in 0..n :
                /\ \A j \in 1..k : \A d, e \in split_dirs : d[j] = e[j]
                /\ k < n => \E d, e \in split_dirs : d[k + 1] # e[k + 1]
        new_root == IF split_dirs = {} THEN <<>>
                    ELSE SubSeq(CHOOSE d \in split_dirs : TRUE, 1, m)
    IN  [b EXCEPT !.root = Join(new_root)]

\* a variant of add that leaves the root as it was
add_norebalance(b, file_path) ==
    [b EXCEPT !.files = Append(@, file_path)]

\* Batch.add
add(b, file_path) ==
    rebalance_root([b EXCEPT !.files = Append(@, file_path)])

\* a variant of remove that ignores a missing path
remove_ignore_missing(b, file_path) ==
    [batch |-> rebalance_root([b EXCEPT !.files = list_remove(@, file_path).list]),
     raised |-> "none"]

\* Batch.remove: the batch afterwards and the exception that left the call
remove(b, file_path) ==
    LET r == list_remove(b.files, file_path)
    IN  IF r.raised # "none"
        THEN [batch |-> b, raised |-> r.raised]
        ELSE [batch |-> rebalance_root([b EXCEPT !.files = r.list]),
              raised |-> "none"]

\* Batch.contains_file
contains_file(b, file_path) == \E i \in DOMAIN b.files : b.files[i] = file_path

\* Batch.file_count
file_count(b) == Len(b.files)

\* a variant of blocks that tests the paths as substrings of the directories
blocks_substring(b, dirs) ==
    \E d \in dirs : \E x \in directories(b) : StrIn(d, x)

\* Batch.blocks
blocks(b, dirs) == \E d \in dirs : d \in directories(b)

\* a variant of base_similar without the common-parent case of line 103
base_similar_no_sibling(b, other_root) ==
    IF b.root = other_root THEN TRUE
    ELSE IF ListEqStr(ButLast(Split(b.root, SLASH)), other_root) THEN TRUE
    ELSE IF StrIn(other_root, b.root) THEN TRUE
    ELSE FALSE

\* Batch.base_similar
base_similar(b, other_root) ==
    IF b.root = other_root THEN TRUE
    ELSE IF ListEqStr(ButLast(Split(b.root, SLASH)), other_root) THEN TRUE
    ELSE IF ButLast(Split(b.root, SLASH)) = ButLast(Split(other_root, SLASH)) THEN TRUE
    ELSE IF StrIn(other_root, b.root) THEN TRUE
    ELSE FALSE

-----------------------------------------------------------------------------
(* Paths and names the inputs are drawn from *)

NameA == <<"a">>
NameB == <<"b">>
NameBC == <<"b", "c">>
NameC == <<"c">>
NameD == <<"d">>
FileX == <<"x", DOT, "p", "y">>
FileY == <<"y", DOT, "p", "y">>
FileR == <<"r", DOT, "t", "x", "t">>

DirA == <<SLASH>> \o NameA
DirAB == os_path_join(DirA, NameB)
DirABC == os_path_join(DirAB, NameC)
DirABC2 == os_path_join(DirA, NameBC)
DirABC2D == os_path_join(DirABC2, NameD)

\* the file paths add and remove are called with
FilePaths ==
    { os_path_join(DirA, FileX), os_path_join(DirAB, FileX),
      os_path_join(DirAB, FileY), os_path_join(DirABC2, FileX),
      os_path_join(DirABC2D, FileX) }

\* the roots Batch is constructed with and base_similar is called with
Roots == { <<>>, DirA, DirAB, DirABC2, DirABC2D, DirABC }

-----------------------------------------------------------------------------
(* BatchSpec: one Batch object under any sequence of calls *)

NoCall == [op |-> "none", arg |-> <<>>, raised |-> "none", result |-> FALSE,
           pre |-> Batch(<<>>)]

\* the last call, preceded by the call before it when the two are a remove
\* that succeeded and an add of the path it removed
Push(h, e) ==
    <<IF h[2].op = "remove" /\ h[2].raised = "none" /\ e.op = "add" /\ e.arg = h[2].arg
      THEN h[2] ELSE NoCall, e>>

BatchInit ==
    /\ heap \in {<<Batch(r)>> : r \in {DirA, DirAB}}
    /\ hist = <<NoCall, NoCall>>
    /\ fs = <<>>
    /\ walk = <<>>
    /\ LIMIT = 0
    /\ idx = 0
    /\ pc = "batch"
    /\ batches = <<>>
    /\ current_batch = 0
    /\ in_a_batch = FALSE
    /\ python_files = <<>>
    /\ log = <<>>

crawl_vars == <<fs, walk, LIMIT, idx, pc, batches, current_batch, in_a_batch,
                python_files, log>>

\* a call of Batch.add
BatchAdd(p) ==
    /\ pc = "batch"
    /\ file_count(heap[1]) < MaxFiles
    /\ heap' = <<add(heap[1], p)>>
    /\ hist' = Push(hist, [op |-> "add", arg |-> p, raised |-> "none",
                           result |-> FALSE, pre |-> heap[1]])
    /\ UNCHANGED crawl_vars

\* a call of Batch.remove
BatchRemove(p) ==
    /\ pc = "batch"
    /\ LET r == remove(heap[1], p)
       IN  /\ heap' = <<r.batch>>
           /\ hist' = Push(hist, [op |-> "remove", arg |-> p, raised |-> r.raised,
                                  result |-> FALSE, pre |-> heap[1]])
    /\ UNCHANGED crawl_vars

\* a call of Batch.base_similar
BatchBaseSimilar(o) ==
    /\ pc = "batch"
    /\ hist' = Push(hist, [op |-> "base_similar", arg |-> o, raised |-> "none",
                           result |-> base_similar(heap[1], o), pre |-> heap[1]])
    /\ UNCHANGED <<heap, crawl_vars>>

\* the assignment  batch.blocked = True  that crawl makes on a batch
BatchMarkBlocked ==
    /\ pc = "batch"
    /\ ~heap[1].blocked
    /\ heap' = <<[heap[1] EXCEPT !.blocked = TRUE]>>
    /\ hist' = Push(hist, [op |-> "blocked", arg |-> <<>>, raised |-> "none",
                           result |-> FALSE, pre |-> heap[1]])
    /\ UNCHANGED crawl_vars

BatchNext ==
    \/ \E p \in FilePaths : BatchAdd(p)
    \/ \E p \in FilePaths : BatchRemove(p)
    \/ \E o \in Roots : BatchBaseSimilar(o)
    \/ BatchMarkBlocked

BatchSpec == BatchInit /\ [][BatchNext]_vars

-----------------------------------------------------------------------------
(* check_if_blocked, filter_python_files and the walk *)

\* a variant of check_if_blocked that looks for the bare subdirectory names
check_if_blocked_unjoined(bs, root, dirs) ==
    LET paths == {dirs[i] : i \in DOMAIN dirs}
    IN  \E i \in DOMAIN bs : blocks(bs[i], paths)

\* check_if_blocked, bs being the Batch objects the list refers to
check_if_blocked(bs, root, dirs) ==
    LET paths == {os_path_join(root, dirs[i]) : i \in DOMAIN dirs}
    IN  \E i \in DOMAIN bs : blocks(bs[i], paths)

\* a variant of the test that lets every file through
IsPython_any(f) == TRUE

\* the test of filter_python_files: f.split('.')[-1] == 'py'
IsPython(f) ==
    LET parts == Split(f, DOT) IN parts[Len(parts)] = <<"p", "y">>

\* filter_python_files
filter_python_files(files) == SelectSeq(files, IsPython)

\* [os.path.join(root, f) for f in filter_python_files(files)]
JoinAll(root, files) ==
    LET py == filter_python_files(files)
    IN  [i \in DOMAIN py |-> os_path_join(root, py[i])]

\* the directories of the trees crawl is run on, the first being crawl's path
TreeDirs == {DirA, DirAB, DirABC, DirABC2, DirABC2D}

\* the listings of subdirectory names a directory can have, in listdir order
SubdirLists(d) ==
    IF d = DirA THEN {<<>>, <<NameB>>, <<NameBC>>, <<NameB, NameBC>>, <<NameBC, NameB>>}
    ELSE IF d = DirAB THEN {<<>>, <<NameC>>}
    ELSE IF d = DirABC2 THEN {<<>>, <<NameD>>}
    ELSE {<<>>}

\* the listings of file names a directory can have
FileLists == {<<FileR>>, <<FileX>>, <<FileX, FileR, FileY>>}

\* a listing of subdirectory names for every directory
Listings ==
    {[d \in TreeDirs |->
        IF d = DirA THEN a ELSE IF d = DirAB THEN b
        ELSE IF d = DirABC2 THEN c ELSE <<>>] :
      a \in SubdirLists(DirA), b \in SubdirLists(DirAB), c \in SubdirLists(DirABC2)}

\* the directories that exist under listing D: those reached from top
RECURSIVE Reached(_, _)
Reached(D, top) ==
    {top} \cup UNION {Reached(D, os_path_join(top, D[top][i])) : i \in DOMAIN D[top]}

\* the trees: every directory that exists has its listings, the others none
Trees ==
    {[d \in TreeDirs |->
        IF d \in Reached(D, DirA)
        THEN [dirs |-> D[d], files |-> F[d]]
        ELSE [dirs |-> <<>>, files |-> <<>>]] :
      D \in Listings, F \in [TreeDirs -> FileLists]}

\* the concatenation of the walks of the subdirectories, in listing order
RECURSIVE os_walk(_, _)
WalkEach(t, top, names) ==
    LET F[k \in 0..Len(names)] ==
            IF k = 0 THEN <<>>
            ELSE F[k - 1] \o os_walk(t, os_path_join(top, names[k]))
    IN  F[Len(names)]

\* os.walk(top, topdown=False): the subdirectories first, then top itself
os_walk(t, top) ==
    WalkEach(t, top, t[top].dirs)
        \o <<[root |-> top, dirs |-> t[top].dirs, files |-> t[top].files]>>

-----------------------------------------------------------------------------
(* CrawlSpec: crawl(path, LIMIT), one step of the loop body at a time *)

\* the Batch objects a list of references refers to
Deref(refs) == [i \in DOMAIN refs |-> heap[refs[i]]]

\* the triple the for loop is at
Node == walk[idx]

CrawlInit ==
    /\ fs \in Trees
    /\ walk = os_walk(fs, DirA)
    /\ LIMIT \in 1..MaxLimit
    /\ idx = 0
    /\ pc = "for"
    /\ heap = <<>>
    /\ batches = <<>>
    /\ current_batch = 0
    /\ in_a_batch = FALSE
    /\ python_files = <<>>
    /\ log = <<>>
    /\ hist = <<NoCall, NoCall>>

\* a variant of SkipDirectory that makes the blocked test before skipping
SkipDirectory_marks_blocked ==
    /\ pc = "for"
    /\ idx < Len(walk)
    /\ Len(filter_python_files(walk[idx + 1].files)) < 1
    /\ idx' = idx + 1
    /\ heap' = IF in_a_batch /\ check_if_blocked(Deref(batches), walk[idx + 1].root,
                                                 walk[idx + 1].dirs)
               THEN [heap EXCEPT ![current_batch].blocked = TRUE]
               ELSE heap
    /\ UNCHANGED <<hist, fs, walk, LIMIT, pc, batches, current_batch,
                   in_a_batch, python_files, log>>

\* lines 132-135: the next triple has no python file and is skipped
SkipDirectory ==
    /\ pc = "for"
    /\ idx < Len(walk)
    /\ Len(filter_python_files(walk[idx + 1].files)) < 1
    /\ idx' = idx + 1
    /\ UNCHANGED <<heap, hist, fs, walk, LIMIT, pc, batches, current_batch,
                   in_a_batch, python_files, log>>

\* a variant of EnterDirectory without the test of line 134
EnterDirectory_unfiltered ==
    /\ pc = "for"
    /\ idx < Len(walk)
    /\ idx' = idx + 1
    /\ pc' = "in_a_batch"
    /\ UNCHANGED <<heap, hist, fs, walk, LIMIT, batches, current_batch,
                   in_a_batch, python_files, log>>

\* lines 132-134: the next triple has python files
EnterDirectory ==
    /\ pc = "for"
    /\ idx < Len(walk)
    /\ ~(Len(filter_python_files(walk[idx + 1].files)) < 1)
    /\ idx' = idx + 1
    /\ pc' = "in_a_batch"
    /\ UNCHANGED <<heap, hist, fs, walk, LIMIT, batches, current_batch,
                   in_a_batch, python_files, log>>

\* lines 136-138: no batch is open, one is made for this directory
OpenBatch ==
    /\ pc = "in_a_batch"
    /\ ~in_a_batch
    /\ heap' = Append(heap, Batch(Node.root))
    /\ log' = Append(log, <<>>)
    /\ current_batch' = Len(heap) + 1
    /\ in_a_batch' = TRUE
    /\ pc' = "similar"
    /\ UNCHANGED <<hist, fs, walk, LIMIT, idx, batches, python_files>>

\* line 136: a batch is open already
KeepBatch ==
    /\ pc = "in_a_batch"
    /\ in_a_batch
    /\ pc' = "similar"
    /\ UNCHANGED <<heap, hist, fs, walk, LIMIT, idx, batches, current_batch,
                   in_a_batch, python_files, log>>

\* a variant of CloseDissimilar that forgets the fresh Batch of line 141
CloseDissimilar_no_fresh ==
    /\ pc = "similar"
    /\ ~base_similar(heap[current_batch], Node.root)
    /\ batches' = Append(batches, current_batch)
    /\ in_a_batch' = TRUE
    /\ pc' = "blocked"
    /\ UNCHANGED <<heap, log, current_batch, hist, fs, walk, LIMIT, idx, python_files>>

\* lines 139-142: the open batch is not similar to this directory
CloseDissimilar ==
    /\ pc = "similar"
    /\ ~base_similar(heap[current_batch], Node.root)
    /\ batches' = Append(batches, current_batch)
    /\ heap' = Append(heap, Batch(Node.root))
    /\ log' = Append(log, <<>>)
    /\ current_batch' = Len(heap) + 1
    /\ in_a_batch' = TRUE
    /\ pc' = "blocked"
    /\ UNCHANGED <<hist, fs, walk, LIMIT, idx, python_files>>

\* line 139: the open batch is similar to this directory
StaySimilar ==
    /\ pc = "similar"
    /\ base_similar(heap[current_batch], Node.root)
    /\ pc' = "blocked"
    /\ UNCHANGED <<heap, hist, fs, walk, LIMIT, idx, batches, current_batch,
                   in_a_batch, python_files, log>>

\* lines 145-146: a subdirectory of this directory is in a closed batch
MarkBlocked ==
    /\ pc = "blocked"
    /\ check_if_blocked(Deref(batches), Node.root, Node.dirs)
    /\ heap' = [heap EXCEPT ![current_batch].blocked = TRUE]
    /\ pc' = "files"
    /\ UNCHANGED <<hist, fs, walk, LIMIT, idx, batches, current_batch,
                   in_a_batch, python_files, log>>

\* a variant of NotBlocked that assigns the result of the test to blocked
NotBlocked_clears ==
    /\ pc = "blocked"
    /\ ~check_if_blocked(Deref(batches), Node.root, Node.dirs)
    /\ heap' = [heap EXCEPT ![current_batch].blocked = FALSE]
    /\ pc' = "files"
    /\ UNCHANGED <<hist, fs, walk, LIMIT, idx, batches, current_batch,
                   in_a_batch, python_files, log>>

\* line 145: no subdirectory of this directory is in a closed batch
NotBlocked ==
    /\ pc = "blocked"
    /\ ~check_if_blocked(Deref(batches), Node.root, Node.dirs)
    /\ pc' = "files"
    /\ UNCHANGED <<heap, hist, fs, walk, LIMIT, idx, batches, current_batch,
                   in_a_batch, python_files, log>>

\* line 147: the paths of this directory's python files
ListPythonFiles ==
    /\ pc = "files"
    /\ python_files' = JoinAll(Node.root, Node.files)
    /\ log' = [log EXCEPT ![current_batch] =
                  Append(@, [root |-> Node.root, dirs |-> Node.dirs,
                             n |-> Len(JoinAll(Node.root, Node.files)),
                             before |-> file_count(heap[current_batch]),
                             closed |-> Len(batches)])]
    /\ pc' = "add"
    /\ UNCHANGED <<heap, hist, fs, walk, LIMIT, idx, batches, current_batch,
                   in_a_batch>>

\* a variant of AddFile that closes the batch as soon as it reaches LIMIT
\* and puts the remaining files of the directory into a new batch
AddFile_hard_limit ==
    /\ pc = "add"
    /\ python_files # <<>>
    /\ python_files' = Tail(python_files)
    /\ IF file_count(heap[current_batch]) + 1 >= LIMIT /\ Tail(python_files) # <<>>
       THEN /\ heap' = Append([heap EXCEPT ![current_batch] = add(@, Head(python_files))],
                              Batch(walk[idx].root))
            /\ log' = Append(log, <<>>)
            /\ batches' = Append(batches, current_batch)
            /\ current_batch' = Len(heap) + 1
       ELSE /\ heap' = [heap EXCEPT ![current_batch] = add(@, Head(python_files))]
            /\ UNCHANGED <<log, batches, current_batch>>
    /\ UNCHANGED <<hist, fs, walk, LIMIT, idx, pc, in_a_batch>>

\* lines 148-149: one turn of the inner loop
AddFile ==
    /\ pc = "add"
    /\ python_files # <<>>
    /\ heap' = [heap EXCEPT ![current_batch] = add(@, Head(python_files))]
    /\ python_files' = Tail(python_files)
    /\ UNCHANGED <<hist, fs, walk, LIMIT, idx, pc, batches, current_batch,
                   in_a_batch, log>>

\* a variant of at_limit that lets a batch of exactly limit files stay open
at_limit_strict(b, limit) == file_count(b) > limit

\* line 150: current_batch.file_count() >= LIMIT
at_limit(b, limit) == file_count(b) >= limit

\* a variant of CloseAtLimit that forgets line 152
CloseAtLimit_still_open ==
    /\ pc = "add"
    /\ python_files = <<>>
    /\ at_limit(heap[current_batch], LIMIT)
    /\ batches' = Append(batches, current_batch)
    /\ pc' = "for"
    /\ UNCHANGED <<heap, hist, fs, walk, LIMIT, idx, current_batch, in_a_batch,
                   python_files, log>>

\* lines 150-152: the batch has reached the limit and is closed
CloseAtLimit ==
    /\ pc = "add"
    /\ python_files = <<>>
    /\ at_limit(heap[current_batch], LIMIT)
    /\ batches' = Append(batches, current_batch)
    /\ in_a_batch' = FALSE
    /\ pc' = "for"
    /\ UNCHANGED <<heap, hist, fs, walk, LIMIT, idx, current_batch,
                   python_files, log>>

\* line 150: the batch is below the limit and stays open
BelowLimit ==
    /\ pc = "add"
    /\ python_files = <<>>
    /\ ~at_limit(heap[current_batch], LIMIT)
    /\ pc' = "for"
    /\ UNCHANGED <<heap, hist, fs, walk, LIMIT, idx, batches, current_batch,
                   in_a_batch, python_files, log>>

\* a variant of FinishOpen that returns without lines 153-154
FinishOpen_drop ==
    /\ pc = "for"
    /\ idx = Len(walk)
    /\ in_a_batch
    /\ pc' = "done"
    /\ UNCHANGED <<heap, hist, fs, walk, LIMIT, idx, batches, current_batch,
                   in_a_batch, python_files, log>>

\* lines 153-155: the walk is over with a batch open
FinishOpen ==
    /\ pc = "for"
    /\ idx = Len(walk)
    /\ in_a_batch
    /\ batches' = Append(batches, current_batch)
    /\ pc' = "done"
    /\ UNCHANGED <<heap, hist, fs, walk, LIMIT, idx, current_batch, in_a_batch,
                   python_files, log>>

\* lines 153-155: the walk is over with no batch open
FinishClosed ==
    /\ pc = "for"
    /\ idx = Len(walk)
    /\ ~in_a_batch
    /\ pc' = "done"
    /\ UNCHANGED <<heap, hist, fs, walk, LIMIT, idx, batches, current_batch,
                   in_a_batch, python_files, log>>

CrawlNext ==
    \/ SkipDirectory
    \/ EnterDirectory
    \/ OpenBatch
    \/ KeepBatch
    \/ CloseDissimilar
    \/ StaySimilar
    \/ MarkBlocked
    \/ NotBlocked
    \/ ListPythonFiles
    \/ AddFile
    \/ CloseAtLimit
    \/ BelowLimit
    \/ FinishOpen
    \/ FinishClosed

CrawlSpec == CrawlInit /\ [][CrawlNext]_vars

-----------------------------------------------------------------------------
(* Paths by components, as the claims read them *)

\* the components of a path
Comp(p) == Split(p, SLASH)

\* the directory a file is in: the path up to its last slash
ContainingDir(f) ==
    LET slashes == {i \in 1..Len(f) : f[i] = SLASH}
    IN  IF slashes = {} THEN <<>>
        ELSE SubSeq(f, 1, (CHOOSE i \in slashes : \A j \in slashes : j <= i) - 1)

ContainingDirs(b) == {ContainingDir(b.files[i]) : i \in DOMAIN b.files}

\* r is a prefix of d, component by component
IsPrefix(r, d) == Len(r) <= Len(d) /\ SubSeq(d, 1, Len(r)) = r

\* directory d lies strictly below directory e
StrictlyUnder(d, e) == Comp(d) # Comp(e) /\ IsPrefix(Comp(e), Comp(d))

\* r is a common prefix of the components of every directory in ds
CommonPrefix(r, ds) == \A d \in ds : IsPrefix(r, Comp(d))

\* the prefixes of the components of the directories in ds
Prefixes(ds) ==
    UNION {{SubSeq(Comp(d), 1, k) : k \in 0..Len(Comp(d))} : d \in ds}

\* root is the longest common component prefix of ds
IsLongestCommonPrefix(root, ds) ==
    \E r \in Prefixes(ds) :
        /\ CommonPrefix(r, ds)
        /\ \A q \in Prefixes(ds) : CommonPrefix(q, ds) => Len(q) <= Len(r)
        /\ root = Join(r)

\* the number of occurrences of x in the list l
Count(l, x) == Cardinality({i \in DOMAIN l : l[i] = x})

SameMultiset(l1, l2) ==
    \A x \in {l1[i] : i \in DOMAIN l1} \cup {l2[i] : i \in DOMAIN l2} :
        Count(l1, x) = Count(l2, x)

LastCall == hist[2]

-----------------------------------------------------------------------------
(* Claims about Batch, under BatchSpec *)

\* C1: after every add call, the batch's root is the longest component-wise
\* common prefix of the containing directories of the files in the batch.
C1_RootIsLongestCommonPrefix ==
    (pc = "batch" /\ LastCall.op = "add") =>
        IsLongestCommonPrefix(heap[1].root, ContainingDirs(heap[1]))

\* an add has raised the root to a directory that holds none of the files
C1_Witness ==
    /\ pc = "batch" /\ LastCall.op = "add"
    /\ Cardinality(ContainingDirs(heap[1])) >= 2
    /\ heap[1].root # LastCall.pre.root
    /\ heap[1].root \notin ContainingDirs(heap[1])

\* C6: top_level_directories holds no directory that lies strictly below
\* another directory of the same batch.
C6_NoNestedTopLevel ==
    pc = "batch" =>
        \A d \in top_level_directories(heap[1]) :
            \A e \in directories(heap[1]) : ~StrictlyUnder(d, e)

\* a batch with a directory below another one, which is filtered out
C6_Witness ==
    /\ pc = "batch"
    /\ \E d, e \in directories(heap[1]) :
          StrictlyUnder(d, e) /\ d \notin top_level_directories(heap[1])
    /\ top_level_directories(heap[1]) # {}

\* C7: top_level_directories is exactly the set of the batch's directories
\* that do not lie strictly below another directory of the batch.
C7_TopLevelExact ==
    pc = "batch" =>
        top_level_directories(heap[1]) =
            {d \in directories(heap[1]) :
                \A e \in directories(heap[1]) : ~StrictlyUnder(d, e)}

\* C8: base_similar(other_root) is true exactly when other_root is the root,
\* is the root's parent, has the root's parent as its parent, or is an
\* ancestor of the root, all by components.
C8_BaseSimilarExact ==
    (pc = "batch" /\ LastCall.op = "base_similar") =>
        LET root == LastCall.pre.root
            other == LastCall.arg
        IN  LastCall.result <=>
                \/ other = root
                \/ other = Join(ButLast(Comp(root)))
                \/ ButLast(Comp(other)) = ButLast(Comp(root))
                \/ StrictlyUnder(root, other)

\* C9: remove(p) followed by add(p), for p in files, leaves files the same
\* multiset and root the same as before the two calls.
C9_RemoveAddRoundTrip ==
    (pc = "batch" /\ hist[1].op = "remove" /\ hist[1].raised = "none"
        /\ LastCall.op = "add" /\ LastCall.arg = hist[1].arg) =>
        /\ SameMultiset(heap[1].files, hist[1].pre.files)
        /\ heap[1].root = hist[1].pre.root

\* a round trip that moved the root in between and reordered the files
C9_Witness ==
    /\ pc = "batch" /\ hist[1].op = "remove" /\ hist[1].raised = "none"
    /\ LastCall.op = "add" /\ LastCall.arg = hist[1].arg
    /\ LastCall.pre.root # heap[1].root
    /\ heap[1].files # hist[1].pre.files

\* C10: remove(p) for p not in files ends in a not-found error and leaves
\* files, root and blocked as they were.
C10_RemoveMissingRaises ==
    (pc = "batch" /\ LastCall.op = "remove"
        /\ ~contains_file(LastCall.pre, LastCall.arg)) =>
        /\ LastCall.raised = "ValueError"
        /\ heap[1].files = LastCall.pre.files
        /\ heap[1].root = LastCall.pre.root
        /\ heap[1].blocked = LastCall.pre.blocked

\* a missing path was removed from a blocked batch that holds files
C10_Witness ==
    /\ pc = "batch" /\ LastCall.op = "remove"
    /\ ~contains_file(LastCall.pre, LastCall.arg)
    /\ LastCall.raised = "ValueError"
    /\ heap[1].blocked
    /\ heap[1].files # <<>>

-----------------------------------------------------------------------------
(* Claims about crawl, under CrawlSpec *)

\* the visits whose files went into batch object id, oldest first
Visits(id) == log[id]

\* the files of the batch at position i of the result list
FilesOf(i) == {heap[batches[i]].files[k] : k \in DOMAIN heap[batches[i]].files}

\* C2: once a batch has been appended to the result list, no later step of
\* crawl changes its root, files or blocked value.
C2_ClosedBatchesFrozen ==
    [][\A i \in DOMAIN batches : heap'[batches[i]] = heap[batches[i]]]_vars

\* crawl has returned; after a first batch was closed, directories were
\* visited, a batch was marked blocked and files were added to it
C2_Witness ==
    /\ pc = "done"
    /\ Len(batches) >= 2
    /\ \E j \in DOMAIN batches :
         /\ heap[batches[j]].blocked
         /\ \E v \in DOMAIN Visits(batches[j]) : Visits(batches[j])[v].closed >= 1

\* C3: whenever a directory's files are about to be added the open batch
\* holds fewer than LIMIT files, and so a closed batch holds at most LIMIT
\* files plus those of the last directory added to it.
C3_OverflowByOneDirectory ==
    pc # "batch" =>
        /\ \A id \in DOMAIN log : \A v \in DOMAIN Visits(id) :
              Visits(id)[v].before < LIMIT
        /\ \A i \in DOMAIN batches :
              LET id == batches[i]
                  n == IF Visits(id) = <<>> THEN 0
                       ELSE Visits(id)[Len(Visits(id))].n
              IN  file_count(heap[id]) <= LIMIT + n

\* a closed batch, filled in two visits, that holds more than LIMIT files
C3_Witness ==
    /\ pc = "done"
    /\ \E i \in DOMAIN batches :
         /\ file_count(heap[batches[i]]) > LIMIT
         /\ Len(Visits(batches[i])) >= 2

\* a visit v whose directory has a subdirectory with files in the batch at
\* position k of the result list, that batch closed before v's files are added
ClaimedBelow(v, k) ==
    /\ k <= v.closed
    /\ \E d \in DOMAIN v.dirs :
         os_path_join(v.root, v.dirs[d]) \in {ContainingDir(f) : f \in FilesOf(k)}

\* C4: when a closed batch holds files of a subdirectory of the directory
\* visited, the batch that receives the directory's own files is blocked.
C4_BlockedByClosedSubdirectory ==
    \A id \in DOMAIN log : \A v \in DOMAIN Visits(id) :
        (Visits(id)[v].n >= 1 /\ \E k \in DOMAIN batches : ClaimedBelow(Visits(id)[v], k))
            => heap[id].blocked

\* crawl has returned a batch with files of /a/b before a batch with /a's
C4_Witness ==
    /\ pc = "done"
    /\ \E j \in DOMAIN batches : \E v \in DOMAIN Visits(batches[j]) :
         /\ Visits(batches[j])[v].root = DirA
         /\ \E k \in DOMAIN batches :
              /\ k < j
              /\ ClaimedBelow(Visits(batches[j])[v], k)
              /\ DirAB \in {ContainingDir(f) : f \in FilesOf(k)}
         /\ heap[batches[j]].blocked

\* C5: in crawl's result, every batch for which another batch holds a file
\* in a directory strictly below its root is blocked.
C5_BlockedWhenDeeperFilesElsewhere ==
    pc = "done" =>
        \A i, j \in DOMAIN batches :
            (i # j /\ \E f \in FilesOf(j) :
                        StrictlyUnder(ContainingDir(f), heap[batches[i]].root))
                => heap[batches[i]].blocked

-----------------------------------------------------------------------------
(* Further claims about Batch, under BatchSpec *)

\* C11: when rebalance_root runs on a batch with no directories, as after
\* remove has taken out the last file, root keeps the value it had.
C11_EmptyRebalanceKeepsRoot ==
    (pc = "batch" /\ LastCall.op = "remove" /\ LastCall.raised = "none"
        /\ heap[1].files = <<>>) =>
        heap[1].root = LastCall.pre.root

-----------------------------------------------------------------------------
(* ScenarioSpec: crawl over the trees of the two worked scenarios and      *)
(* their neighbours, with LIMIT up to the program's MAX_FILE_NUMBER        *)

\* MAX_FILE_NUMBER, the limit main passes to crawl
MAX_FILE_NUMBER == 10

FileZ == <<"z", DOT, "p", "y">>
FileW == <<"w", DOT, "p", "y">>
Digits == <<"1", "2", "3", "4", "5">>

\* five python files
FiveFiles == [i \in DOMAIN Digits |-> <<Digits[i], DOT, "p", "y">>]

DirAC == os_path_join(DirA, NameC)
DirABD == os_path_join(DirAB, NameD)

ScenarioDirs == {DirA, DirAB, DirAC, DirABD}

\* /a with subdirectories b and c in either listing order, b with or
\* without a subdirectory d, and a few file listings for each
ScenarioTrees ==
    {[d \in ScenarioDirs |->
        IF d = DirA THEN [dirs |-> order, files |-> fa]
        ELSE IF d = DirAB THEN [dirs |-> sub, files |-> fb]
        ELSE IF d = DirAC THEN [dirs |-> <<>>, files |-> fc]
        ELSE [dirs |-> <<>>, files |-> IF sub = <<>> THEN <<>> ELSE <<FileW>>]] :
      order \in {<<NameB, NameC>>, <<NameC, NameB>>},
      sub \in {<<>>, <<NameD>>},
      fa \in {<<>>, <<FileR>>, <<FileX>>},
      fb \in {<<FileR>>, <<FileY, FileZ>>, FiveFiles},
      fc \in {<<FileW>>, FiveFiles}}

ScenarioInit ==
    /\ fs \in ScenarioTrees
    /\ walk = os_walk(fs, DirA)
    /\ LIMIT \in 1..MAX_FILE_NUMBER
    /\ idx = 0
    /\ pc = "for"
    /\ heap = <<>>
    /\ batches = <<>>
    /\ current_batch = 0
    /\ in_a_batch = FALSE
    /\ python_files = <<>>
    /\ log = <<>>
    /\ hist = <<NoCall, NoCall>>

ScenarioSpec == ScenarioInit /\ [][CrawlNext]_vars

\* the tree /a/x.py, /a/b/y.py, /a/b/z.py, /a/c/w.py
IsTree12 ==
    /\ fs[DirA].files = <<FileX>>
    /\ fs[DirAB] = [dirs |-> <<>>, files |-> <<FileY, FileZ>>]
    /\ fs[DirAC].files = <<FileW>>

\* C12: over /a/x.py, /a/b/y.py, /a/b/z.py, /a/c/w.py with limit 10, in
\* either order of /a/b and /a/c, crawl returns exactly one batch, with
\* root /a, four files and blocked false.
C12_ScenarioSingleBatch ==
    (pc = "done" /\ IsTree12 /\ LIMIT = 10) =>
        /\ Len(batches) = 1
        /\ heap[batches[1]].root = DirA
        /\ file_count(heap[batches[1]]) = 4
        /\ heap[batches[1]].blocked = FALSE

\* crawl has returned from that tree, /a/c visited before /a/b
C12_Witness ==
    /\ pc = "done" /\ IsTree12 /\ LIMIT = 10
    /\ fs[DirA].dirs = <<NameC, NameB>>
    /\ walk[1].root = DirAC
    /\ Len(batches) = 1

\* the tree with five python files in /a/b, five in /a/c and none in /a
IsTree13 ==
    /\ fs[DirA].files \in {<<>>, <<FileR>>}
    /\ fs[DirAB] = [dirs |-> <<>>, files |-> FiveFiles]
    /\ fs[DirAC].files = FiveFiles

\* C13: with limit 4 over that tree, the batch of /a/b and the batch of /a/c
\* are each closed in the visit of their own directory, the visit of /a opens
\* no batch and changes nothing, and crawl returns exactly these two batches.
C13_ScenarioTwoBatches ==
    (IsTree13 /\ LIMIT = 4) =>
        /\ (pc = "for" /\ idx = 1) =>
              /\ Len(batches) = 1 /\ ~in_a_batch
              /\ heap[batches[1]].files = JoinAll(walk[1].root, FiveFiles)
        /\ (pc = "for" /\ idx >= 2) =>
              /\ Len(batches) = 2 /\ ~in_a_batch
              /\ heap[batches[2]].files = JoinAll(walk[2].root, FiveFiles)
        /\ Len(heap) <= 2
        /\ pc = "done" =>
              /\ batches = <<1, 2>>
              /\ {heap[1].files, heap[2].files} =
                    {JoinAll(DirAB, FiveFiles), JoinAll(DirAC, FiveFiles)}
              /\ {heap[1].root, heap[2].root} = {DirAB, DirAC}

\* crawl has returned from that tree, /a holding a file that is not python
C13_Witness ==
    /\ pc = "done" /\ IsTree13 /\ LIMIT = 4
    /\ fs[DirA].files = <<FileR>>
    /\ idx = 3
    /\ Len(batches) = 2

-----------------------------------------------------------------------------
(* Further claims about crawl, under CrawlSpec *)

\* the python file paths of the k-th triple of the walk
PathsOf(k) == JoinAll(walk[k].root, walk[k].files)

\* the positions in the result list of the batches that hold path f
HoldersOf(f) == {i \in DOMAIN batches : f \in FilesOf(i)}

\* C14: all python files of one visited directory go into the same batch; no
\* batch is closed or replaced between two files of a directory, whatever
\* the file count.
C14_DirectoryAddedWhole ==
    /\ [][(pc = "add" /\ python_files # <<>>) =>
            /\ batches' = batches
            /\ current_batch' = current_batch
            /\ in_a_batch' = in_a_batch
            /\ pc' = "add"]_vars
    /\ [](pc = "done" =>
            \A k \in DOMAIN walk :
                \A f, g \in {PathsOf(k)[i] : i \in DOMAIN PathsOf(k)} :
                    HoldersOf(f) = HoldersOf(g) /\ Cardinality(HoldersOf(f)) = 1)

\* a directory's second file is about to be added to a batch that has
\* already reached LIMIT
C14_Witness ==
    /\ pc = "add"
    /\ python_files # <<>>
    /\ Len(python_files) < Len(PathsOf(idx))
    /\ file_count(heap[current_batch]) >= LIMIT

\* C15: blocked is monotonic for every batch, open or closed: once true it
\* is true in every later state of crawl.
C15_BlockedMonotonic ==
    [][\A id \in DOMAIN heap : heap[id].blocked => heap'[id].blocked]_vars

\* a batch that was marked blocked in one visit has gone through a later
\* visit, whose directory has no subdirectory in a closed batch
C15_Witness ==
    /\ pc = "done"
    /\ \E id \in DOMAIN heap :
         /\ heap[id].blocked
         /\ Len(Visits(id)) >= 2
         /\ ~check_if_blocked(Deref(SubSeq(batches, 1, Visits(id)[Len(Visits(id))].closed)),
                              Visits(id)[Len(Visits(id))].root,
                              Visits(id)[Len(Visits(id))].dirs)

\* the next triple of the walk has no python file
NextHasNoPython ==
    pc = "for" /\ idx < Len(walk) /\ PathsOf(idx + 1) = <<>>

\* C16: visiting a directory with no python file changes nothing: not the
\* result list, not whether a batch is open, not any batch's files, root or
\* blocked flag, also when its subdirectories are in closed batches.
C16_SkipChangesNothing ==
    [][NextHasNoPython =>
        /\ batches' = batches
        /\ in_a_batch' = in_a_batch
        /\ current_batch' = current_batch
        /\ heap' = heap
        /\ pc' = "for"
        /\ idx' = idx + 1]_vars

\* a directory without python files was just skipped while a batch that is
\* not blocked was open and a closed batch held one of its subdirectories
C16_Witness ==
    /\ pc = "for"
    /\ idx >= 1
    /\ PathsOf(idx) = <<>>
    /\ in_a_batch
    /\ ~heap[current_batch].blocked
    /\ check_if_blocked(Deref(batches), walk[idx].root, walk[idx].dirs)

\* the last visit logged for batch object id
LastVisit(id) == Visits(id)[Len(Visits(id))]

\* C17: when the open batch is not base_similar to the visited directory D,
\* it is appended to the results once, as it was, and D's files go into a
\* fresh batch that holds only them and has root D; when it is base_similar,
\* nothing is appended and D's files go into the batch already open.
C17_DissimilarClosesSimilarJoins ==
    /\ [][(pc = "similar" /\ in_a_batch) =>
            IF ~base_similar(heap[current_batch], Node.root)
            THEN /\ batches' = Append(batches, current_batch)
                 /\ heap'[current_batch] = heap[current_batch]
                 /\ current_batch' \notin DOMAIN heap
                 /\ current_batch' \notin {batches'[i] : i \in DOMAIN batches'}
                 /\ heap'[current_batch'] = Batch(Node.root)
                 /\ in_a_batch'
            ELSE /\ batches' = batches
                 /\ current_batch' = current_batch
                 /\ heap' = heap
                 /\ in_a_batch']_vars
    /\ []((pc = "add" /\ python_files = <<>>) =>
            LET b == heap[current_batch]
                v == LastVisit(current_batch)
            IN  /\ v.root = Node.root
                /\ Len(b.files) = v.before + v.n
                /\ SubSeq(b.files, v.before + 1, Len(b.files)) = PathsOf(idx)
                /\ Len(Visits(current_batch)) = 1 =>
                      (b.files = PathsOf(idx) /\ b.root = Node.root)
                /\ current_batch \notin {batches[i] : i \in DOMAIN batches})

\* crawl has returned a batch that was closed below LIMIT before the end,
\* that is by a dissimilar directory, and a batch filled in two visits
C17_Witness ==
    /\ pc = "done"
    /\ \E i \in DOMAIN batches :
         i < Len(batches) /\ file_count(heap[batches[i]]) < LIMIT
    /\ \E i \in DOMAIN batches : Len(Visits(batches[i])) >= 2

\* the number of files in the first k batches of the result list
FileCountSum(k) ==
    LET F[i \in 0..k] ==
            IF i = 0 THEN 0 ELSE F[i - 1] + file_count(heap[batches[i]])
    IN  F[k]

\* the number of python files in the first k triples of the walk
PythonFileSum(k) ==
    LET F[i \in 0..k] ==
            IF i = 0 THEN 0 ELSE F[i - 1] + Len(PathsOf(i))
    IN  F[k]

\* C18: the batches crawl returns partition the python files: every python
\* file of every visited directory is in exactly one batch, once; no batch
\* object is returned twice and none is left out; the file counts add up to
\* the number of python files.
C18_BatchesPartitionFiles ==
    pc = "done" =>
        /\ \A k \in DOMAIN walk : \A n \in DOMAIN PathsOf(k) :
              /\ Cardinality(HoldersOf(PathsOf(k)[n])) = 1
              /\ \A i \in HoldersOf(PathsOf(k)[n]) :
                    Count(heap[batches[i]].files, PathsOf(k)[n]) = 1
        /\ \A i, j \in DOMAIN batches : i # j => batches[i] # batches[j]
        /\ \A id \in DOMAIN heap : \E i \in DOMAIN batches : batches[i] = id
        /\ in_a_batch => \E i \in DOMAIN batches : batches[i] = current_batch
        /\ FileCountSum(Len(batches)) = PythonFileSum(Len(walk))

\* crawl has returned several batches, the last one closed by the end of
\* the walk, one of them filled in two visits
C18_Witness ==
    /\ pc = "done"
    /\ in_a_batch
    /\ Len(batches) >= 2
    /\ batches[Len(batches)] = current_batch
    /\ \E i \in DOMAIN batches : Len(Visits(batches[i])) >= 2
    /\ PythonFileSum(Len(walk)) >= 4

\* C19: every batch in the result list holds at least one file, whichever
\* rule closed it.
C19_NoEmptyBatch ==
    pc # "batch" =>
        \A i \in DOMAIN batches : file_count(heap[batches[i]]) >= 1

\* crawl has returned a batch closed by a dissimilar directory, a batch
\* closed at the limit and a batch closed by the end of the walk
C19_Witness ==
    /\ pc = "done"
    /\ in_a_batch /\ batches[Len(batches)] = current_batch
    /\ \E i \in DOMAIN batches :
         i < Len(batches) /\ file_count(heap[batches[i]]) < LIMIT
    /\ \E i \in DOMAIN batches :
         i < Len(batches) /\ file_count(heap[batches[i]]) >= LIMIT

\* the parent of a directory, by components
ParentDir(d) == Join(ButLast(Comp(d)))

\* some batch standing before position j in the result list, closed before
\* visit v added its files, holds a file in an immediate subdirectory of
\* v's directory
BlockedBy(v, j) ==
    \E k \in DOMAIN batches :
        /\ k < j
        /\ k <= v.closed
        /\ \E f \in FilesOf(k) :
              /\ ParentDir(ContainingDir(f)) = v.root
              /\ ContainingDir(f) # v.root

\* C20: a batch in the result is blocked only if a batch closed earlier,
\* standing before it in the result, holds a file in an immediate
\* subdirectory of a directory whose python files went into this batch.
C20_BlockedOnlyByEarlierBatch ==
    pc = "done" =>
        \A j \in DOMAIN batches :
            heap[batches[j]].blocked =>
                \E v \in DOMAIN Visits(batches[j]) :
                    BlockedBy(Visits(batches[j])[v], j)

\* crawl has returned a blocked batch and, after it, a batch that is not
\* blocked
C20_Witness ==
    /\ pc = "done"
    /\ \E j \in DOMAIN batches :
         /\ heap[batches[j]].blocked
         /\ \E v \in DOMAIN Visits(batches[j]) : BlockedBy(Visits(batches[j])[v], j)
    /\ \E j \in DOMAIN batches :
         /\ ~heap[batches[j]].blocked
         /\ \E i \in DOMAIN batches : i < j /\ heap[batches[i]].blocked

====
